---------------------------- MODULE Spec2Model ----------------------------
(* State-machine model of utils/neural_network.py: NeuralNetwork.__init__, *)
(* set_optimizer, back_propagation (at the level of array shapes) and the  *)
(* train loop.  Numeric array contents are abstracted: an array is its     *)
(* shape plus the identity of the parameter version it was computed from.  *)
EXTENDS Integers, Sequences, FiniteSets, TLC

\* ------------------------------------------------------------------ bounds
MaxN        == 3   \* training samples
MaxBatch    == 2   \* batch_size
MaxEpochs   == 2   \* num_epochs
MaxLogEvery == 2   \* log_every
MaxSetCalls == 2   \* caller's set_optimizer calls on one network

\* ----------------------------------------------------------------- strings
\* A Python str is a sequence of one-character strings.
s_sgd           == <<"s","g","d">>
s_SGD           == <<"S","G","D">>
s_momentum      == <<"m","o","m","e","n","t","u","m">>
s_nesterov      == <<"n","e","s","t","e","r","o","v">>
s_rmsprop       == <<"r","m","s","p","r","o","p">>
s_adam          == <<"a","d","a","m">>
s_nadam         == <<"n","a","d","a","m">>
s_AdaGrad       == <<"A","d","a","G","r","a","d">>
s_random        == <<"r","a","n","d","o","m">>
s_xavier        == <<"x","a","v","i","e","r">>
s_Xavier        == <<"X","a","v","i","e","r">>
s_he            == <<"h","e">>
s_sigmoid       == <<"s","i","g","m","o","i","d">>
s_relu          == <<"r","e","l","u">>
s_tanh          == <<"t","a","n","h">>
s_identity      == <<"i","d","e","n","t","i","t","y">>
s_softmax       == <<"s","o","f","t","m","a","x">>
s_Softmax       == <<"S","o","f","t","m","a","x">>
s_cross_entropy == <<"c","r","o","s","s","_","e","n","t","r","o","p","y">>
s_mse           == <<"m","s","e">>
s_MSE           == <<"M","S","E">>
s_mean_squared_error ==
    <<"m","e","a","n","_","s","q","u","a","r","e","d","_","e","r","r","o","r">>

UpperCase == <<"A","B","C","D","E","F","G","H","I","J","K","L","M",
               "N","O","P","Q","R","S","T","U","V","W","X","Y","Z">>
LowerCase == <<"a","b","c","d","e","f","g","h","i","j","k","l","m",
               "n","o","p","q","r","s","t","u","v","w","x","y","z">>

\* c.lower() of one character
lower_char(c) ==
    IF \E j \in 1..Len(UpperCase) : UpperCase[j] = c
    THEN LowerCase[CHOOSE j \in 1..Len(UpperCase) : UpperCase[j] = c]
    ELSE c

Chars == {UpperCase[j] : j \in 1..Len(UpperCase)} \cup
         {LowerCase[j] : j \in 1..Len(LowerCase)} \cup {"_"}
lower_table == [c \in Chars |-> lower_char(c)]

\* str.lower(): every upper-case letter becomes its lower-case letter.
lower(s) == [i \in 1..Len(s) |-> lower_table[s[i]]]

\* Python's None and a present value.
None      == {}
Some(v)   == {v}
IsNone(o) == o = {}
Get(o)    == CHOOSE v \in o : TRUE


\* ------------------------------------------------------------------- state
VARIABLES
    pc,                   \* position of the caller / of train
    err,                  \* the exception raised by the last operation, or None
    \* NeuralNetwork attributes
    layer_sizes, L, activation_functions, W, B, optimizer,
    \* set_optimizer's argument: the caller's mapping, as passed and as left
    dict_arg, optimizer_dict, set_calls,
    \* arguments and locals of train
    X_train, y_train, X_val, y_val, batch_size, num_epochs, loss_type,
    log_every, callback, num_datapoints, num_batches, history, iteration,
    epoch, batch, X_batch, y_batch, H, grads, train_loss, train_acc,
    \* what the collaborators and an observer of one batch step see
    update_calls,         \* step argument of every optimizer.update call
    callback_calls,       \* arguments of every callback.on_epoch_end call
    ops,                  \* the operations of the batch steps, in order
    slices                \* <<start_idx, end_idx>> of the current epoch's batches

net_vars   == <<layer_sizes, L, activation_functions, W, B, optimizer>>
opt_vars   == <<dict_arg, optimizer_dict, set_calls>>
arg_vars   == <<X_val, y_val, batch_size, num_epochs, loss_type, log_every,
                callback, num_datapoints, num_batches>>
data_vars  == <<X_train, y_train>>
loop_vars  == <<history, iteration, epoch, batch, X_batch, y_batch, H, grads,
                train_loss, train_acc>>
obs_vars   == <<update_calls, callback_calls, ops, slices>>
vars       == <<pc, err, net_vars, opt_vars, arg_vars, data_vars, loop_vars, obs_vars>>

\* ------------------------------------------------------------ array shapes
\* A numpy shape is a tuple of dimensions; <<>> is a scalar.
BadShape  == <<-1>>
IsBad(s)  == s = BadShape
Dim(s, i) == IF i < 1 THEN 1 ELSE s[i]      \* missing leading dimensions are 1
MaxOf(a, b) == IF a >= b THEN a ELSE b

\* numpy broadcasting of two operands of an elementwise operation
Broadcast(a, b) ==
    IF IsBad(a) \/ IsBad(b) THEN BadShape
    ELSE LET n  == MaxOf(Len(a), Len(b))
             da(i) == Dim(a, i - (n - Len(a)))
             db(i) == Dim(b, i - (n - Len(b)))
         IN  IF \A i \in 1..n : da(i) = db(i) \/ da(i) = 1 \/ db(i) = 1
             THEN [i \in 1..n |-> MaxOf(da(i), db(i))]
             ELSE BadShape

\* np.dot of two matrices
Dot(a, b) ==
    IF IsBad(a) \/ IsBad(b) \/ Len(a) # 2 \/ Len(b) # 2 THEN BadShape
    ELSE IF a[2] = b[1] THEN <<a[1], b[2]>> ELSE BadShape

Transpose(a) == IF IsBad(a) \/ Len(a) # 2 THEN a ELSE <<a[2], a[1]>>

\* np.sum(a, axis=0, keepdims=True)
SumAxis0(a) == IF IsBad(a) \/ Len(a) # 2 THEN BadShape ELSE <<1, a[2]>>

\* number of elements (ndarray.size)
Size(a) == IF Len(a) = 0 THEN 1 ELSE IF Len(a) = 1 THEN a[1] ELSE a[1] * a[2]

\* ------------------------------------------------------- network functions
Supported == {s_sigmoid, s_relu, s_tanh, s_softmax, s_identity}

\* activate: the result has the shape of A; an unknown tag raises ValueError
activate(A, activation) ==
    IF lower(activation) \in Supported THEN A ELSE BadShape

\* _activate_derivative: H*(1-H), (A > 0), 1 - H**2, or the scalar 1
activate_derivative(A, Hk, activation) ==
    CASE lower(activation) = s_sigmoid  -> Hk
      [] lower(activation) = s_relu     -> A
      [] lower(activation) = s_tanh     -> Hk
      [] lower(activation) = s_identity -> <<>>
      [] lower(activation) = s_softmax  -> <<>>
      [] OTHER                          -> BadShape

\* forward_propagation on a batch of shape X: the shapes of H (L+1) and A (L)
RECURSIVE forward_H(_, _)
forward_A(X, i) ==
    Broadcast(Dot(forward_H(X, i), Transpose(W[i].shape)), B[i].shape)
forward_H(X, i) ==
    IF i = 1 THEN X
    ELSE activate(forward_A(X, i - 1), activation_functions[i - 1])

forward_propagation(X) ==
    [H |-> [i \in 1..(L + 1) |-> forward_H(X, i)],
     A |-> [i \in 1..L |-> forward_A(X, i)]]

\* one_hot: (y.size, layer_sizes[-1])
one_hot(y) == <<Size(y), layer_sizes[Len(layer_sizes)]>>

\* _loss_derivative: the shape of the label operand and of the result
loss_derivative(y_pred, y, loss) ==
    IF lower(loss) = s_cross_entropy
    THEN [err |-> None, label |-> y, dH |-> Broadcast(y, y_pred)]
    ELSE IF lower(loss) = s_mse \/ lower(loss) = s_mean_squared_error
    THEN LET y1 == IF Len(y) = 1 THEN one_hot(y) ELSE y
         IN  [err |-> None, label |-> y1, dH |-> Broadcast(y_pred, y1)]
    ELSE [err |-> Some("ValueError: Unsupported loss function"),
          label |-> y, dH |-> BadShape]

\* back_propagation, output layer: dA and the label operand it was built from
output_dA(y, Hs, As, loss) ==
    IF lower(loss) = s_cross_entropy
       /\ lower(activation_functions[Len(activation_functions)]) = s_softmax
    THEN [err |-> None, path |-> "shortcut", label |-> one_hot(y),
          dH |-> BadShape,
          dA |-> Broadcast(Hs[L + 1], one_hot(y))]
    ELSE LET d == loss_derivative(Hs[L + 1], y, loss)
         IN  [err |-> d.err, path |-> "general", label |-> d.label,
              dH |-> d.dH,
              dA |-> Broadcast(d.dH,
                        activate_derivative(As[L], Hs[L + 1],
                                            activation_functions[L]))]

\* back_propagation, layers L-1 down to 1: dA of layer k
RECURSIVE layer_dA(_, _, _, _)
layer_dA(dAL, Hs, As, k) ==
    IF k = L THEN dAL
    ELSE Broadcast(Dot(layer_dA(dAL, Hs, As, k + 1), W[k + 1].shape),
                   activate_derivative(As[k], Hs[k + 1], activation_functions[k]))

\* back_propagation(X, y, H, A, loss_type): gradients' shapes, or the error.
\* The weight_decay term (dW[i] += weight_decay * W[i]) adds an array of W[i]'s
\* shape to a gradient of that shape and changes no shape.
back_propagation(X, y, Hs, As, loss) ==
    IF ~(Len(Hs) = L + 1 /\ Len(As) = L /\ X[1] = Size(y))
    THEN [err |-> Some("AssertionError"), path |-> "none", label |-> y,
          dH |-> BadShape, dW |-> <<>>, dB |-> <<>>]
    ELSE LET o  == output_dA(y, Hs, As, loss)
             dW == [k \in 1..L |-> Dot(Transpose(layer_dA(o.dA, Hs, As, k)), Hs[k])]
             dB == [k \in 1..L |-> SumAxis0(layer_dA(o.dA, Hs, As, k))]
         IN  IF ~IsNone(o.err)
             THEN [err |-> o.err, path |-> o.path, label |-> o.label,
                   dH |-> o.dH, dW |-> <<>>, dB |-> <<>>]
             ELSE IF \E k \in 1..L : IsBad(dW[k]) \/ IsBad(dB[k])
             THEN [err |-> Some("ValueError: operands could not be broadcast together"),
                   path |-> o.path, label |-> o.label, dH |-> o.dH,
                   dW |-> <<>>, dB |-> <<>>]
             ELSE [err |-> None, path |-> o.path, label |-> o.label,
                   dH |-> o.dH, dW |-> dW, dB |-> dB]


\* ----------------------------------------------------------------- inputs
LayerSizeChoices  == {<<2, 3>>, <<2, 2, 3>>}
ActivationChoices == {<<s_softmax>>, <<s_sigmoid, s_Softmax>>, <<s_sigmoid, s_sigmoid>>}
WeightInitChoices == {s_random, s_Xavier, s_he}
OptimizerNames    == {s_SGD, s_AdaGrad}
LossChoices       == {s_cross_entropy, s_MSE}

\* the data set: training rows 1..N, two validation rows, the label of row x
ValRows      == <<MaxN + 1, MaxN + 2>>
TrueLabel(x, C) == (x - 1) % C

Perms(n) == {p \in [1..n -> 1..n] : \A i, j \in 1..n : p[i] = p[j] => i = j}

\* ------------------------------------------------------------- __init__
\* (variant: rows and columns of each weight matrix exchanged)
init_W_swapped(ls) ==
    [i \in 1..(Len(ls) - 1) |-> [shape |-> <<ls[i], ls[i + 1]>>, ver |-> 0]]

init_W(ls) == [i \in 1..(Len(ls) - 1) |-> [shape |-> <<ls[i + 1], ls[i]>>, ver |-> 0]]
init_B(ls) == [i \in 1..(Len(ls) - 1) |-> [shape |-> <<1, ls[i + 1]>>, ver |-> 0]]

Init ==
    /\ pc = "new" /\ err = None
    /\ layer_sizes = <<>> /\ L = 0 /\ activation_functions = <<>>
    /\ W = <<>> /\ B = <<>> /\ optimizer = None
    /\ dict_arg = None /\ optimizer_dict = None /\ set_calls = 0
    /\ X_train = <<>> /\ y_train = <<>> /\ X_val = None /\ y_val = None
    /\ batch_size = 0 /\ num_epochs = 0 /\ loss_type = <<>> /\ log_every = 0
    /\ callback = FALSE /\ num_datapoints = 0 /\ num_batches = 0
    /\ history = [train_loss |-> <<>>, train_acc |-> <<>>,
                  val_loss |-> None, val_acc |-> None]
    /\ iteration = 0 /\ epoch = 0 /\ batch = 0
    /\ X_batch = <<>> /\ y_batch = <<>> /\ H = None /\ grads = None
    /\ train_loss = None /\ train_acc = None
    /\ update_calls = <<>> /\ callback_calls = <<>> /\ ops = <<>> /\ slices = <<>>

Construct(ls, acts, weight_init) ==
    /\ pc = "new"
    /\ IF Len(ls) # Len(acts) + 1
       THEN /\ pc' = "rejected"
            /\ err' = Some("AssertionError")
            /\ UNCHANGED net_vars
       ELSE IF lower(weight_init) = s_random \/ lower(weight_init) = s_xavier
       THEN /\ layer_sizes' = ls
            /\ L' = Len(ls) - 1
            /\ activation_functions' = acts
            /\ W' = init_W(ls)
            /\ B' = init_B(ls)
            /\ optimizer' = None
            /\ pc' = "idle"
            /\ err' = None
       ELSE /\ pc' = "rejected"
            /\ err' = Some(<<"ValueError: Unsupported weight initialization: ",
                             weight_init>>)
            /\ UNCHANGED net_vars
    /\ UNCHANGED <<opt_vars, arg_vars, data_vars, loop_vars, obs_vars>>

\* --------------------------------------------------------- set_optimizer
optimizer_map == {s_sgd, s_momentum, s_nesterov, s_rmsprop, s_adam, s_nadam}

\* dict.update({'LOG_EACH': self.LOG_EACH})
dict_update(d, v) ==
    [k \in DOMAIN d \cup {"LOG_EACH"} |-> IF k = "LOG_EACH" THEN v ELSE d[k]]

\* (variant: the mapping is updated before the name is checked)
set_optimizer_update_first(d) ==
    IF lower(d["name"]) \notin optimizer_map
    THEN [err |-> Some(<<"ValueError: Unsupported optimizer: ", d["name"]>>),
          dict |-> dict_update(d, FALSE), optimizer |-> optimizer]
    ELSE [err |-> None, dict |-> dict_update(d, FALSE),
          optimizer |-> Some(lower(d["name"]))]

\* the effect of set_optimizer(d): the error raised, the mapping as it is left,
\* and self.optimizer
set_optimizer(d) ==
    IF lower(d["name"]) \notin optimizer_map
    THEN [err |-> Some(<<"ValueError: Unsupported optimizer: ", d["name"]>>),
          dict |-> d, optimizer |-> optimizer]
    ELSE [err |-> None, dict |-> dict_update(d, FALSE),   \* LOG_EACH's default
          optimizer |-> Some(lower(d["name"]))]

SetOptimizer(d) ==
    /\ pc = "idle"
    /\ set_calls < MaxSetCalls
    /\ set_calls' = set_calls + 1
    /\ dict_arg' = Some(d)
    /\ optimizer_dict' = Some(set_optimizer(d).dict)
    /\ optimizer' = set_optimizer(d).optimizer
    /\ err' = set_optimizer(d).err
    /\ UNCHANGED <<pc, layer_sizes, L, activation_functions, W, B,
                   arg_vars, data_vars, loop_vars, obs_vars>>


\* ------------------------------------------------ predictions, loss, accuracy
\* predict(X): the output of the current parameters on the rows X
predict(X) == [ver |-> W[1].ver, X |-> X]

\* compute_loss(H_final, y, loss_type): a real number determined by the
\* predictions, the (one-hot expanded) labels and the loss formula; kept as
\* the formula, the parameter version and the number of rows it was taken over
compute_loss(H_final, y, loss) ==
    [kind |-> IF lower(loss) = s_cross_entropy THEN "cross_entropy" ELSE "mse",
     ver |-> H_final.ver, rows |-> Len(H_final.X), labels |-> Len(y)]

\* np.argmax(self.predict(X), axis=1) for one row.  The numeric values of W
\* and B are not modelled: the network is taken to be one that assigns every
\* row class 0, a classifier any of the architectures can realise.
argmax_predict(x) == 0

\* compute_accuracy(X, y) = mean(argmax(predict(X)) == y), kept as the
\* fraction <<number of hits, number of rows>>
compute_accuracy(X, y) ==
    <<Cardinality({i \in 1..Len(X) : argmax_predict(X[i]) = y[i]}), Len(X)>>

\* two means are the same float iff the fractions are equal
SameMean(a, b) == a[1] * b[2] = b[1] * a[2]

\* ------------------------------------------------------------------ train
\* (variant: the division rounded down)
floor_div(n, b) == n \div b

\* int(np.ceil(num_datapoints / batch_size))
ceil_div(n, b) == IF n % b = 0 THEN n \div b ELSE (n \div b) + 1

min(a, b) == IF a <= b THEN a ELSE b

\* arr[permutation]
take(arr, permutation) == [i \in 1..Len(permutation) |-> arr[permutation[i]]]

\* arr[start_idx:end_idx]
slice(arr, start_idx, end_idx) == SubSeq(arr, start_idx + 1, min(end_idx, Len(arr)))

\* optimizer.update(W, B, dW, dB, step): new arrays shaped like W and B
optimizer_update(arrs, k) == [i \in 1..Len(arrs) |-> [shape |-> arrs[i].shape, ver |-> k]]

Fail(e) ==
    /\ pc' = "failed"
    /\ err' = Some(e)

\* lines 306-322: defaults, num_batches, the empty history, iteration = 0
Train(N, b, E, loss, every, xv, yv, cb) ==
    /\ pc = "idle"
    /\ pc' = "shuffle"
    /\ err' = None
    /\ optimizer' = IF IsNone(optimizer)
                    THEN set_optimizer([name |-> s_sgd, learning_rate |-> "0.01"]).optimizer
                    ELSE optimizer
    /\ X_train' = [i \in 1..N |-> i]
    /\ y_train' = [i \in 1..N |-> TrueLabel(i, layer_sizes[Len(layer_sizes)])]
    /\ X_val' = IF xv THEN Some(ValRows) ELSE None
    /\ y_val' = IF yv THEN Some([i \in 1..Len(ValRows) |->
                                   TrueLabel(ValRows[i], layer_sizes[Len(layer_sizes)])])
                      ELSE None
    /\ batch_size' = b /\ num_epochs' = E /\ loss_type' = loss
    /\ log_every' = every /\ callback' = cb
    /\ num_datapoints' = N
    /\ num_batches' = ceil_div(N, b)
    /\ history' = [train_loss |-> <<>>, train_acc |-> <<>>,
                   val_loss |-> IF xv THEN Some(<<>>) ELSE None,
                   val_acc  |-> IF xv THEN Some(<<>>) ELSE None]
    /\ iteration' = 0
    /\ epoch' = 0
    /\ dict_arg' = None /\ optimizer_dict' = None /\ set_calls' = 0
    /\ ops' = <<>>
    /\ UNCHANGED <<layer_sizes, L, activation_functions, W, B,
                   batch, X_batch, y_batch, H, grads, train_loss, train_acc,
                   update_calls, callback_calls, slices>>

\* (variant: inputs and labels shuffled by two permutations)
ShuffleIndependently ==
    /\ pc = "shuffle"
    /\ \E p1 \in Perms(num_datapoints), p2 \in Perms(num_datapoints) :
          /\ X_train' = take(X_train, p1)
          /\ y_train' = take(y_train, p2)
    /\ batch' = 0
    /\ slices' = <<>>
    /\ pc' = "slice"
    /\ UNCHANGED <<err, net_vars, opt_vars, arg_vars, history, iteration, epoch,
                   X_batch, y_batch, H, grads, train_loss, train_acc,
                   update_calls, callback_calls, ops>>

\* lines 326-328
Shuffle ==
    /\ pc = "shuffle"
    /\ \E permutation \in Perms(num_datapoints) :
          /\ X_train' = take(X_train, permutation)
          /\ y_train' = take(y_train, permutation)
    /\ batch' = 0
    /\ slices' = <<>>
    /\ pc' = "slice"
    /\ UNCHANGED <<err, net_vars, opt_vars, arg_vars, history, iteration, epoch,
                   X_batch, y_batch, H, grads, train_loss, train_acc,
                   update_calls, callback_calls, ops>>

\* lines 331-334
Slice ==
    /\ pc = "slice"
    /\ LET start_idx == batch * batch_size
           end_idx   == min((batch + 1) * batch_size, num_datapoints)
       IN  /\ X_batch' = slice(X_train, start_idx, end_idx)
           /\ y_batch' = slice(y_train, start_idx, end_idx)
           /\ slices' = Append(slices, <<start_idx, end_idx>>)
    /\ pc' = "forward"
    /\ UNCHANGED <<err, net_vars, opt_vars, arg_vars, data_vars, history, iteration,
                   epoch, batch, H, grads, train_loss, train_acc,
                   update_calls, callback_calls, ops>>

\* line 336
Forward ==
    /\ pc = "forward"
    /\ LET f == forward_propagation(<<Len(X_batch), layer_sizes[1]>>)
       IN  IF \E i \in 1..Len(f.H) : IsBad(f.H[i])
           THEN Fail("ValueError") /\ UNCHANGED H
           ELSE /\ H' = Some([ver |-> W[1].ver, X |-> X_batch, H |-> f.H, A |-> f.A])
                /\ pc' = "backward"
                /\ err' = err
    /\ ops' = Append(ops, <<"forward", W[1].ver>>)
    /\ UNCHANGED <<net_vars, opt_vars, arg_vars, data_vars, history, iteration, epoch,
                   batch, X_batch, y_batch, grads, train_loss, train_acc,
                   update_calls, callback_calls, slices>>

\* line 337
Backward ==
    /\ pc = "backward"
    /\ LET g == back_propagation(<<Len(X_batch), layer_sizes[1]>>, <<Len(y_batch)>>,
                                 Get(H).H, Get(H).A, loss_type)
       IN  /\ grads' = Some(g)
           /\ IF IsNone(g.err)
              THEN pc' = "update" /\ err' = err
              ELSE Fail(Get(g.err))
    /\ ops' = Append(ops, <<"backward", Get(H).ver>>)
    /\ UNCHANGED <<net_vars, opt_vars, arg_vars, data_vars, history, iteration, epoch,
                   batch, X_batch, y_batch, H, train_loss, train_acc,
                   update_calls, callback_calls, slices>>

\* line 339
Update ==
    /\ pc = "update"
    /\ update_calls' = Append(update_calls, iteration)
    /\ W' = optimizer_update(W, Len(update_calls) + 1)
    /\ B' = optimizer_update(B, Len(update_calls) + 1)
    /\ ops' = Append(ops, <<"update", W'[1].ver>>)
    /\ pc' = "log"
    /\ UNCHANGED <<err, layer_sizes, L, activation_functions, optimizer, opt_vars,
                   arg_vars, data_vars, loop_vars, callback_calls, slices>>

\* (variant: the logging test made on the incremented counter)
LogOnNextStep ==
    /\ pc = "log"
    /\ IF (iteration + 1) % log_every = 0
       THEN /\ train_loss' = Some(compute_loss(Get(H), y_batch, loss_type))
            /\ ops' = Append(ops, <<"log", iteration + 1>>)
       ELSE UNCHANGED <<train_loss, ops>>
    /\ pc' = "incr"
    /\ UNCHANGED <<err, net_vars, opt_vars, arg_vars, data_vars, history, iteration,
                   epoch, batch, X_batch, y_batch, H, grads, train_acc,
                   update_calls, callback_calls, slices>>

\* lines 341-348
Log ==
    /\ pc = "log"
    /\ IF iteration % log_every = 0
       THEN /\ train_loss' = Some(compute_loss(Get(H), y_batch, loss_type))
            /\ ops' = Append(ops, <<"log", iteration>>)
       ELSE UNCHANGED <<train_loss, ops>>
    /\ pc' = "incr"
    /\ UNCHANGED <<err, net_vars, opt_vars, arg_vars, data_vars, history, iteration,
                   epoch, batch, X_batch, y_batch, H, grads, train_acc,
                   update_calls, callback_calls, slices>>

\* line 350 and the end of the batch loop
Incr ==
    /\ pc = "incr"
    /\ iteration' = iteration + 1
    /\ ops' = Append(ops, <<"incr", iteration'>>)
    /\ batch' = batch + 1
    /\ pc' = IF batch + 1 < num_batches THEN "slice" ELSE "epoch_train"
    /\ UNCHANGED <<err, net_vars, opt_vars, arg_vars, data_vars, history, epoch,
                   X_batch, y_batch, H, grads, train_loss, train_acc,
                   update_calls, callback_calls, slices>>


\* history['train_loss'].append(train_loss); history['train_acc'].append(train_acc)
record_train(h, loss, acc) ==
    [h EXCEPT !.train_loss = Append(@, loss), !.train_acc = Append(@, acc)]

\* (variant: the validation lists are replaced instead of appended to)
record_val_overwrite(h, loss, acc) ==
    [h EXCEPT !.val_loss = Some(<<loss>>), !.val_acc = Some(<<acc>>)]

\* history['val_loss'].append(val_loss); history['val_acc'].append(val_acc)
record_val(h, loss, acc) ==
    [h EXCEPT !.val_loss = Some(Append(Get(@), loss)),
              !.val_acc  = Some(Append(Get(@), acc))]

\* lines 352-355
EpochTrain ==
    /\ pc = "epoch_train"
    /\ train_loss' = Some(compute_loss(Get(H), y_batch, loss_type))
    /\ train_acc' = Some(compute_accuracy(X_batch, y_batch))
    /\ history' = record_train(history, Get(train_loss'), Get(train_acc'))
    /\ pc' = "epoch_val"
    /\ UNCHANGED <<err, net_vars, opt_vars, arg_vars, data_vars, iteration, epoch,
                   batch, X_batch, y_batch, H, grads, obs_vars>>

\* lines 356-359: predict(None) and None.ndim raise
EpochVal ==
    /\ pc = "epoch_val"
    /\ IF IsNone(X_val)
       THEN Fail("TypeError") /\ UNCHANGED history
       ELSE IF IsNone(y_val)
       THEN Fail("AttributeError") /\ UNCHANGED history
       ELSE /\ history' = record_val(history,
                              compute_loss(predict(Get(X_val)), Get(y_val), loss_type),
                              compute_accuracy(Get(X_val), Get(y_val)))
            /\ pc' = "callback"
            /\ err' = err
    /\ UNCHANGED <<net_vars, opt_vars, arg_vars, data_vars, iteration, epoch,
                   batch, X_batch, y_batch, H, grads, train_loss, train_acc, obs_vars>>

\* the four arguments of callback.on_epoch_end, lines 362-364
on_epoch_end_args ==
    <<Get(train_loss),
      compute_accuracy(X_train, y_train),
      compute_loss(predict(Get(X_val)), Get(y_val), loss_type),
      compute_accuracy(Get(X_val), Get(y_val))>>

\* lines 361-364 and the end of the epoch loop; line 366 when it was the last
EpochCallback ==
    /\ pc = "callback"
    /\ callback_calls' = IF callback THEN Append(callback_calls, on_epoch_end_args)
                                     ELSE callback_calls
    /\ epoch' = epoch + 1
    /\ pc' = IF epoch + 1 < num_epochs THEN "shuffle" ELSE "done"
    /\ UNCHANGED <<err, net_vars, opt_vars, arg_vars, data_vars, history, iteration,
                   batch, X_batch, y_batch, H, grads, train_loss, train_acc,
                   update_calls, ops, slices>>

DoConstruct ==
    /\ pc = "new"
    /\ \E ls \in LayerSizeChoices, acts \in ActivationChoices, wi \in WeightInitChoices :
          Construct(ls, acts, wi)

DoSetOptimizer ==
    /\ pc = "idle"
    /\ \E n \in OptimizerNames : SetOptimizer([name |-> n, learning_rate |-> "0.01"])

DoTrain ==
    /\ pc = "idle"
    /\ \E N \in 1..MaxN, b \in 1..MaxBatch, E \in 1..MaxEpochs, loss \in LossChoices,
          every \in 1..MaxLogEvery, xv \in BOOLEAN, yv \in BOOLEAN, cb \in BOOLEAN :
          Train(N, b, E, loss, every, xv, yv, cb)

Next ==
    \/ DoConstruct
    \/ DoSetOptimizer
    \/ DoTrain
    \/ Shuffle
    \/ Slice
    \/ Forward
    \/ Backward
    \/ Update
    \/ Log
    \/ Incr
    \/ EpochTrain
    \/ EpochVal
    \/ EpochCallback

Spec == Init /\ [][Next]_vars


\* ----------------------------------------------------------------- claims
TrainPcs == {"shuffle", "slice", "forward", "backward", "update", "log", "incr",
             "epoch_train", "epoch_val", "callback", "done", "failed"}
InTrain       == pc \in TrainPcs
HasValidation == ~IsNone(X_val) /\ ~IsNone(y_val)
NoValidation  == IsNone(X_val) /\ IsNone(y_val)
OutputWidth   == layer_sizes[Len(layer_sizes)]
ValLoss(h)    == IF IsNone(h.val_loss) THEN <<>> ELSE Get(h.val_loss)
ValAcc(h)     == IF IsNone(h.val_acc) THEN <<>> ELSE Get(h.val_acc)
IsPrefix(a, b) == Len(a) <= Len(b) /\ \A i \in 1..Len(a) : a[i] = b[i]
\* ceil(n / b): the least m with m * b >= n
CeilOf(n, b)  == CHOOSE m \in 0..n : m * b >= n /\ (m = 0 \/ (m - 1) * b < n)

\* C1: optimizer.update is called once per batch with step arguments
\* 0, 1, 2, ... over the whole run, and a run of train over E epochs of N
\* samples with batch size b makes E * ceil(N/b) calls in total.
C1_UpdateOncePerBatch ==
    InTrain =>
        /\ \A k \in 1..Len(update_calls) : update_calls[k] = k - 1
        /\ (pc \in {"done", "failed"} =>
                Len(update_calls) = num_epochs * CeilOf(num_datapoints, batch_size))

C2_Lengths ==
    (InTrain /\ HasValidation) =>
        LET lens == <<Len(history.train_loss), Len(history.train_acc),
                      Len(ValLoss(history)), Len(ValAcc(history))>>
        IN  /\ pc \in {"shuffle", "slice", "forward", "backward", "update", "log",
                       "incr", "epoch_train", "failed"}
                  => lens = <<epoch, epoch, epoch, epoch>>
            /\ pc = "epoch_val" => lens = <<epoch + 1, epoch + 1, epoch, epoch>>
            /\ pc = "callback"
                  => lens = <<epoch + 1, epoch + 1, epoch + 1, epoch + 1>>
            /\ pc = "done"
                  => /\ epoch = num_epochs
                     /\ lens = <<num_epochs, num_epochs, num_epochs, num_epochs>>
C2_Step ==
    (InTrain /\ HasValidation) =>
        /\ IsPrefix(history.train_loss, history'.train_loss)
        /\ IsPrefix(history.train_acc, history'.train_acc)
        /\ IsPrefix(ValLoss(history), ValLoss(history'))
        /\ IsPrefix(ValAcc(history), ValAcc(history'))
        /\ Len(history'.train_loss) <= Len(history.train_loss) + 1
        /\ Len(ValLoss(history')) <= Len(ValLoss(history)) + 1

\* C2: with validation data, the four history lists gain one entry per epoch
\* and never lose or rewrite one: all four have length e after e completed
\* epochs and length E when train returns.
C2_HistoryGrowsByEpoch == [] C2_Lengths /\ [][C2_Step]_vars

C2_Witness ==
    /\ pc = "done" /\ HasValidation /\ num_epochs = 2 /\ num_batches = 2
    /\ Len(ValLoss(history)) = 2 /\ Len(history.train_acc) = 2

\* C3: without validation data train does not fail at the epoch end: the
\* validation entries are skipped, train_loss and train_acc are recorded once
\* per epoch, and train returns the history.
C3_TrainWithoutValidation ==
    (InTrain /\ NoValidation) =>
        /\ Len(history.train_loss) >= 1 => pc # "failed"
        /\ pc = "done" => /\ Len(history.train_loss) = num_epochs
                          /\ Len(history.train_acc) = num_epochs
                          /\ IsNone(history.val_loss)

\* C4: a supplied callback is invoked once per epoch, after the epoch's
\* history entries are recorded, with the four values recorded for that epoch,
\* whatever the number of batches per epoch.
C4_CallbackGetsRecordedValues ==
    (InTrain /\ callback) =>
        /\ Len(callback_calls) = epoch
        /\ \A i \in 1..Len(callback_calls) :
              /\ i <= Len(history.train_loss) /\ i <= Len(ValLoss(history))
              /\ callback_calls[i][1] = history.train_loss[i]
              /\ SameMean(callback_calls[i][2], history.train_acc[i])
              /\ callback_calls[i][3] = ValLoss(history)[i]
              /\ SameMean(callback_calls[i][4], ValAcc(history)[i])

\* C5: every epoch's shuffle applies one permutation to inputs and labels:
\* no row is lost or duplicated and every input keeps its original label.
C5_ShuffleKeepsPairs ==
    InTrain =>
        /\ Len(X_train) = num_datapoints /\ Len(y_train) = num_datapoints
        /\ {X_train[i] : i \in 1..Len(X_train)} = 1..num_datapoints
        /\ \A i \in 1..Len(X_train) : y_train[i] = TrueLabel(X_train[i], OutputWidth)
C5_Witness ==
    /\ pc = "slice" /\ epoch = 1 /\ num_datapoints = 3
    /\ X_train = <<3, 1, 2>> /\ y_train = <<2, 0, 1>>

C6_Names == {s_sgd, s_momentum, s_nesterov, s_rmsprop, s_adam, s_nadam}
C6_Step ==
    (set_calls' = set_calls + 1 /\ lower(Get(dict_arg')["name"]) \notin C6_Names) =>
        /\ err' = Some(<<"ValueError: Unsupported optimizer: ", Get(dict_arg')["name"]>>)
        /\ optimizer' = optimizer
        /\ W' = W /\ B' = B
        /\ optimizer_dict' = dict_arg'

\* C6: set_optimizer with a name that is, case-insensitively, none of sgd,
\* momentum, nesterov, rmsprop, adam, nadam raises an error naming the
\* requested optimizer and leaves optimizer, W, B and the mapping unchanged.
C6_UnsupportedOptimizerAborts == [][C6_Step]_vars

C6_Witness ==
    /\ pc = "idle" /\ set_calls = 2
    /\ err = Some(<<"ValueError: Unsupported optimizer: ", s_AdaGrad>>)
    /\ optimizer = Some(s_sgd)
    /\ optimizer_dict = Some([name |-> s_AdaGrad, learning_rate |-> "0.01"])

\* C7: a network, once constructed and after any number of training steps,
\* has len(W) = len(B) = L = len(activation_functions) = len(layer_sizes) - 1,
\* W[i] of shape (layer_sizes[i+1], layer_sizes[i]) and B[i] of shape
\* (1, layer_sizes[i+1]); a rejected construction yields no network.
C7_ShapeInvariant ==
    /\ pc \notin {"new", "rejected"} =>
          /\ Len(W) = L /\ Len(B) = L /\ Len(activation_functions) = L
          /\ Len(layer_sizes) - 1 = L /\ L >= 1
          /\ \A i \in 1..L :
                /\ W[i].shape = <<layer_sizes[i + 1], layer_sizes[i]>>
                /\ B[i].shape = <<1, layer_sizes[i + 1]>>
    /\ pc = "rejected" =>
          /\ ~IsNone(err)
          /\ W = <<>> /\ B = <<>> /\ layer_sizes = <<>> /\ L = 0
C7_Witness ==
    /\ pc = "incr" /\ L = 2 /\ Len(update_calls) = 3
    /\ W[1].ver = 3 /\ W[1].shape = <<2, 2>> /\ W[2].shape = <<3, 2>>

\* the number of operations `name` before position i of the trace
Count(name, i) == Cardinality({j \in 1..(i - 1) : ops[j][1] = name})

\* C8 (as stated): a batch step is forward pass, backward pass, optimizer
\* update, global step increment and only then the periodic loss computation.
C8_IncrementBeforeLog ==
    \A i \in 1..Len(ops) :
        ops[i][1] = "log" =>
            /\ i > 4
            /\ ops[i - 1][1] = "incr" /\ ops[i - 2][1] = "update"
            /\ ops[i - 3][1] = "backward" /\ ops[i - 4][1] = "forward"

\* C8 (amended): a batch step is forward pass, backward pass, optimizer
\* update, then the periodic loss computation - made when the step counter,
\* not yet incremented, is a multiple of log_every - and only then the
\* increment; a forward pass starts only after the preceding batch's increment
\* and reads the parameters returned by the preceding update.
C8_BatchStepOrder ==
    \A i \in 1..Len(ops) :
        LET op   == ops[i][1]
            val  == ops[i][2]
            prev == IF i = 1 THEN "none" ELSE ops[i - 1][1]
        IN  /\ op = "forward"  => /\ prev \in {"none", "incr"}
                                  /\ val = Count("update", i)
            /\ op = "backward" => prev = "forward" /\ val = Count("update", i)
            /\ op = "update"   => prev = "backward" /\ val = Count("update", i) + 1
            /\ op = "log"      => /\ prev = "update"
                                  /\ val = Count("incr", i)
                                  /\ val % log_every = 0
            /\ op = "incr"     => /\ prev \in {"update", "log"}
                                  /\ val = Count("incr", i) + 1
                                  /\ prev = "update" => (val - 1) % log_every # 0
C8_Witness ==
    /\ log_every = 2 /\ iteration = 3 /\ Len(ops) = 14
    /\ ops[5] = <<"incr", 1>> /\ ops[9] = <<"incr", 2>> /\ ops[10] = <<"forward", 2>>
    /\ ops[12] = <<"update", 3>> /\ ops[13] = <<"log", 2>> /\ ops[14] = <<"incr", 3>>

\* C9: the batches of an epoch are ceil(N/b) contiguous, non-empty, disjoint
\* slices covering positions 0..N-1 once; all but the last hold b rows, the
\* last 1..b rows, and inputs and labels come from the same positions.
C9_BatchesPartition ==
    InTrain =>
        /\ num_batches = CeilOf(num_datapoints, batch_size)
        /\ Len(slices) <= num_batches
        /\ \A k \in 1..Len(slices) :
              LET start_idx == slices[k][1]
                  end_idx   == slices[k][2]
              IN  /\ start_idx = IF k = 1 THEN 0 ELSE slices[k - 1][2]
                  /\ start_idx < end_idx /\ end_idx <= num_datapoints
                  /\ end_idx - start_idx <= batch_size
                  /\ k < num_batches => end_idx - start_idx = batch_size
                  /\ k = num_batches => end_idx = num_datapoints
        /\ pc \in {"epoch_train", "epoch_val", "callback", "done"}
              => Len(slices) = num_batches
        /\ pc \in {"forward", "backward", "update", "log", "incr"} =>
              LET start_idx == slices[Len(slices)][1]
                  end_idx   == slices[Len(slices)][2]
              IN  /\ Len(slices) = batch + 1
                  /\ X_batch = [i \in 1..(end_idx - start_idx) |-> X_train[start_idx + i]]
                  /\ y_batch = [i \in 1..(end_idx - start_idx) |-> y_train[start_idx + i]]
C9_Witness ==
    /\ pc = "epoch_train" /\ num_datapoints = 3 /\ batch_size = 2
    /\ slices = <<(<<0, 2>>), (<<2, 3>>)>> /\ Len(X_batch) = 1

\* C10: on every path of back_propagation the labels, given as N class
\* indices, are one-hot expanded to shape (N, C) before the loss gradient is
\* applied, and the loss gradient has the shape of y_pred.
C10_LabelsOneHotExpanded ==
    (InTrain /\ ~IsNone(grads)) =>
        LET g == Get(grads)
            n == Len(Get(H).X)
        IN  /\ g.label = <<n, OutputWidth>>
            /\ g.path = "general" => g.dH = <<n, OutputWidth>>

=============================================================================
